---- MODULE Spec2Model ----
(***************************************************************************)
(* A model of the gldap server: the accept loop of Server.Run, the         *)
(* per-connection workers it spawns, Server.Stop, and (further down) the   *)
(* request path of one connection: newRequest, route matching, dispatch    *)
(* and Request.StartTLS.                                                   *)
(***************************************************************************)
EXTENDS Integers, Sequences, FiniteSets, TLC

\* Bound: the number of client connections Accept returns in one Run.
MaxConns == 2

\* Bound: the number of routes registered on the Mux.
MaxRoutes == 2

\* Bound: the number of times one connection is upgraded to TLS.
MaxUpgrades == 1

Nil == "nil"

\* The nil pointer to a structure (packet, message, request, response).
NilPtr == [nil |-> TRUE]

VARIABLES
    \* ---- Server fields (server.go, type Server) ----
    mu,                   \* s.mu: the set of callers holding the read lock
    listener,             \* s.listener: Nil or "set"
    listenerOpen,         \* whether the socket behind s.listener is open
    listenerReady,        \* s.listenerReady
    connWg,               \* s.connWg: the WaitGroup counter
    readTimeout,          \* s.readTimeout # 0
    writeTimeout,         \* s.writeTimeout # 0
    onCloseHandler,       \* s.onCloseHandler # nil
    disablePanicRecovery, \* s.disablePanicRecovery
    shutdownCancel,       \* s.shutdownCancel: Nil, "own" (cancels shutdownCtx) or "other"
    shutdownCtx,          \* s.shutdownCtx is done
    \* ---- Server.Run: position and locals ----
    runPc, runResult, connID, accepted,
    \* ---- Server.Stop: position and result ----
    stopPc, stopResult,
    closeResult,          \* what s.listener.Close() returned to Stop ("none": not called)
    atStop,               \* history: how many workers were spawned when Stop was called
    \* ---- the goroutines Run spawns, by accept order ----
    workers,
    onCloseCalls,         \* per worker, the IDs its on-close callback was invoked with
    crashed,              \* an unrecovered panic has ended the process
    \* ---- one connection and the Mux that serves it ----
    routes,               \* Mux: the routes in registration order
    defaultRoute,         \* Mux: the handler of the default route, or Nil
    netConn,              \* Conn.netConn: how many times the socket is TLS-wrapped
    reader,               \* the netConn the connection's reader is bound to
    cPc,                  \* position of the connection's serve loop
    packet,               \* the packet read last
    readVia,              \* the netConn it was read from
    request,              \* the Request built from it
    dispatched,           \* what Mux.serve chose for it
    reply,                \* the response the client has received for it
    serveResult,          \* what serveRequests returned ("none": still serving)
    tlsCall,              \* the last call of Request.StartTLS by the handler
    \* ---- Server.Router, Server.Ready and the router of a connection ----
    api,                  \* a record, see the definitions below
    \* ---- a response constructor or a route match applied to a request ----
    call                  \* a record, see the definitions below

\* The fields of api.
router       == api.router        \* s.router: the Mux installed, "r1" or "r2"
muW          == api.muW           \* s.mu: the caller holding the exclusive lock, or Nil
routerPc     == api.routerPc      \* position of a call of Server.Router
routerArg    == api.routerArg     \* its argument
routerResult == api.routerResult  \* what the last call of Server.Router returned
readyResult  == api.readyResult   \* what the last call of Server.Ready returned
connRouter   == api.connRouter    \* the router newConn handed to the connection

\* The fields of call.
respCall == call.respCall         \* the constructor called last and its options
resp     == call.resp             \* the response it built
respIDs  == call.respIDs          \* the message IDs of the responses built for the request
mRoute   == call.mRoute           \* the route whose match is called
mResult  == call.mResult          \* what it returned: <<>> before the call, then <<b>>

serverFields == <<mu, listener, listenerOpen, listenerReady, connWg, shutdownCancel, shutdownCtx>>
optFields    == <<readTimeout, writeTimeout, onCloseHandler, disablePanicRecovery>>
runVars      == <<runPc, runResult, connID, accepted>>
stopVars     == <<stopPc, stopResult, closeResult, atStop>>
workerVars   == <<workers, onCloseCalls, crashed>>
apiVars      == <<api>>
pureVars     == <<call>>
serverVars   == <<serverFields, optFields, runVars, stopVars, workerVars, apiVars, pureVars>>
muxVars      == <<routes, defaultRoute>>
connVars     == <<netConn, reader, cPc, packet, readVia, request, dispatched, reply, serveResult, tlsCall>>
vars == <<serverVars, muxVars, connVars>>

ConnIdx == 1..MaxConns

\* A goroutine that has not been spawned.
NoWorker == [pc |-> "none", localConnID |-> 0, exit |-> "none"]

----------------------------------------------------------------------------
(* NewServer: the state after construction. *)

InitRun ==
    /\ runPc = "idle" /\ runResult = "none" /\ connID = 0 /\ accepted = 0

InitStop ==
    /\ stopPc = "idle" /\ stopResult = "none" /\ closeResult = "none" /\ atStop = 0

InitWorkers ==
    /\ workers = [k \in ConnIdx |-> NoWorker]
    /\ onCloseCalls = [k \in ConnIdx |-> <<>>]
    /\ crashed = FALSE

\* No call of Router or Ready yet; NewServer installs its own Mux, "r1"
\* (server.go:56).
InitAPI ==
    api = [router |-> "r1", muW |-> Nil,
           routerPc |-> "idle", routerArg |-> Nil, routerResult |-> "none",
           readyResult |-> "none",
           connRouter |-> "r1"]

\* No response built and no route matched yet.
InitPure ==
    call = [respCall |-> [ctor |-> "none", opt |-> <<>>], resp |-> NilPtr, respIDs |-> {},
            mRoute |-> NilPtr, mResult |-> <<>>]

NewServer ==
    /\ mu = {}
    /\ listener = Nil /\ listenerOpen = FALSE /\ listenerReady = FALSE
    /\ connWg = 0
    /\ shutdownCancel = "own" /\ shutdownCtx = FALSE
    /\ readTimeout \in BOOLEAN /\ writeTimeout \in BOOLEAN
    /\ onCloseHandler \in BOOLEAN
    /\ disablePanicRecovery \in BOOLEAN

\* NewServer installs an empty Mux (server.go:56); a connection starts on
\* its raw socket with nothing read.
NoTLSCall == [config |-> "none", handshake |-> "none", err |-> "none",
              before |-> [netConn |-> 0, reader |-> 0]]

InitMux == routes = <<>> /\ defaultRoute = Nil

InitConn ==
    /\ netConn = 0 /\ reader = 0 /\ cPc = "read"
    /\ packet = NilPtr /\ readVia = 0 /\ request = NilPtr /\ dispatched = NilPtr /\ reply = NilPtr
    /\ serveResult = "none" /\ tlsCall = NoTLSCall

Init ==
    /\ NewServer /\ InitRun /\ InitStop /\ InitWorkers /\ InitMux /\ InitConn
    /\ InitAPI /\ InitPure

\* The servers TestServer_Stop builds: NewServer() without options, then the
\* fields set under s.mu.  "listener-closed" installs a listener that is
\* already closed and a cancel func of another context.
StopTestServers == {"missing-listener", "missing-cancel", "listener-closed"}

TestServer(name) ==
    /\ mu = {} /\ listenerReady = FALSE /\ connWg = 0 /\ shutdownCtx = FALSE
    /\ readTimeout = FALSE /\ writeTimeout = FALSE
    /\ onCloseHandler = FALSE /\ disablePanicRecovery = FALSE
    /\ listener = (IF name = "missing-listener" THEN Nil ELSE "set")
    /\ listenerOpen = (name = "missing-cancel")
    /\ shutdownCancel = (CASE name = "missing-listener" -> "own"
                           [] name = "missing-cancel" -> Nil
                           [] name = "listener-closed" -> "other")

InitStopTest ==
    /\ \E name \in StopTestServers : TestServer(name)
    /\ InitRun /\ InitStop /\ InitWorkers /\ InitMux /\ InitConn
    /\ InitAPI /\ InitPure

----------------------------------------------------------------------------
(* Server.Run, server.go:70-156 *)

\* server.go:75-81: Lock; net.Listen; listenerReady = true; Unlock; the
\* listen error is checked after the unlock.  ok is whether the bind succeeds.
RunListen(ok) ==
    /\ UNCHANGED <<muxVars, connVars, apiVars, pureVars>>
    /\ ~crashed /\ runPc = "idle" /\ mu = {} /\ muW = Nil
    /\ listener' = IF ok THEN "set" ELSE Nil
    /\ listenerOpen' = ok
    /\ listenerReady' = TRUE
    /\ IF ok
         THEN runPc' = "tls" /\ runResult' = runResult
         ELSE runPc' = "returned" /\ runResult' = "listenErr"
    /\ UNCHANGED <<mu, connWg, shutdownCancel, shutdownCtx, connID, accepted>>
    /\ UNCHANGED <<optFields, stopVars, workerVars>>

\* server.go:82-91: with a TLS config the listener is wrapped under the
\* exclusive lock; then connID := 0.
RunTLS(withTLSConfig) ==
    /\ UNCHANGED <<muxVars, connVars, apiVars, pureVars>>
    /\ ~crashed /\ runPc = "tls"
    /\ IF withTLSConfig
         THEN mu = {} /\ muW = Nil /\ listener' = "set"
         ELSE listener' = listener
    /\ connID' = 0
    /\ runPc' = "loop"
    /\ UNCHANGED <<mu, listenerOpen, listenerReady, connWg, shutdownCancel, shutdownCtx>>
    /\ UNCHANGED <<runResult, accepted, optFields, stopVars, workerVars>>

\* server.go:93: connID++
NextConnID(id) == id + 1

\* server.go:93-99: connID++, then the non-blocking check of the shutdown signal.
RunLoop ==
    /\ UNCHANGED <<muxVars, connVars, apiVars, pureVars>>
    /\ ~crashed /\ runPc = "loop"
    /\ connID' = NextConnID(connID)
    /\ IF shutdownCtx
         THEN runPc' = "returned" /\ runResult' = "nil"
         ELSE runPc' = "accept" /\ runResult' = runResult
    /\ UNCHANGED <<serverFields, accepted, optFields, stopVars, workerVars>>

\* Mutant: the error of Accept on a closed listener is returned like any other.
RunAccept_ClosedIsError(other) ==
    /\ UNCHANGED <<muxVars, connVars, apiVars, pureVars>>
    /\ ~crashed /\ runPc = "accept"
    /\ IF ~listenerOpen
         THEN /\ ~other
              /\ runPc' = "returned" /\ runResult' = "acceptErr" /\ accepted' = accepted
         ELSE IF other
         THEN /\ runPc' = "returned" /\ runResult' = "acceptErr" /\ accepted' = accepted
         ELSE /\ accepted < MaxConns
              /\ accepted' = accepted + 1
              /\ runPc' = "newConn" /\ runResult' = runResult
    /\ UNCHANGED <<serverFields, connID, optFields, stopVars, workerVars>>

\* Mutant: Run returns nil on every Accept error.
RunAccept_AnyErrorNil(other) ==
    /\ UNCHANGED <<muxVars, connVars, apiVars, pureVars>>
    /\ ~crashed /\ runPc = "accept"
    /\ IF ~listenerOpen
         THEN /\ ~other
              /\ runPc' = "returned" /\ runResult' = "nil" /\ accepted' = accepted
         ELSE IF other
         THEN /\ runPc' = "returned" /\ runResult' = "nil" /\ accepted' = accepted
         ELSE /\ accepted < MaxConns
              /\ accepted' = accepted + 1
              /\ runPc' = "newConn" /\ runResult' = runResult
    /\ UNCHANGED <<serverFields, connID, optFields, stopVars, workerVars>>

\* server.go:100-107: Accept.  On a closed listener it fails with "use of
\* closed network connection" and Run returns nil; another failure (other)
\* makes Run return the error; otherwise it blocks until a client connects.
RunAccept(other) ==
    /\ UNCHANGED <<muxVars, connVars, apiVars, pureVars>>
    /\ ~crashed /\ runPc = "accept"
    /\ IF ~listenerOpen
         THEN /\ ~other
              /\ runPc' = "returned" /\ runResult' = "nil" /\ accepted' = accepted
         ELSE IF other
         THEN /\ runPc' = "returned" /\ runResult' = "acceptErr" /\ accepted' = accepted
         ELSE /\ accepted < MaxConns
              /\ accepted' = accepted + 1
              /\ runPc' = "newConn" /\ runResult' = runResult
    /\ UNCHANGED <<serverFields, connID, optFields, stopVars, workerVars>>

\* server.go:109-112: newConn; ok is whether the connection is constructed.
RunNewConn(ok) ==
    /\ UNCHANGED <<muxVars, connVars, apiVars, pureVars>>
    /\ ~crashed /\ runPc = "newConn"
    /\ IF ok
         THEN runPc' = "spawn" /\ runResult' = runResult
         ELSE runPc' = "returned" /\ runResult' = "newConnErr"
    /\ UNCHANGED <<serverFields, connID, accepted, optFields, stopVars, workerVars>>

\* server.go:113-115: localConnID := connID; connWg.Add(1); go func() {...}
RunSpawn ==
    /\ UNCHANGED <<muxVars, connVars, apiVars, pureVars>>
    /\ ~crashed /\ runPc = "spawn"
    /\ connWg' = connWg + 1
    /\ workers' = [workers EXCEPT ![accepted] =
                      [NoWorker EXCEPT !.pc = "running", !.localConnID = connID]]
    /\ runPc' = "loop"
    /\ UNCHANGED <<mu, listener, listenerOpen, listenerReady, shutdownCancel, shutdownCtx>>
    /\ UNCHANGED <<runResult, connID, accepted, optFields, stopVars, onCloseCalls, crashed>>

----------------------------------------------------------------------------
(* The goroutine of one connection, server.go:115-154 *)

\* The ways the body of the goroutine ends (server.go:139-153).
Outcomes == {"readDeadline", "writeDeadline", "nil", "err", "panic"}

\* Mutant: no deferred recover is installed.
Panicking_NoRecover(k) == workers[k].exit = "panic"

\* server.go:130-138: the deferred recover is installed unless
\* disablePanicRecovery; without it a panic is still in flight while the
\* deferred cleanup runs, and ends the process after it.
Panicking(k) == workers[k].exit = "panic" /\ disablePanicRecovery

\* server.go:130-153, the body of the goroutine: a deadline is set when its
\* timeout is non-zero and a failure to set it returns; else serveRequests
\* runs and returns nil or an error, or a handler panics.
WorkerServe(k, outcome) ==
    /\ UNCHANGED <<muxVars, connVars, apiVars, pureVars>>
    /\ ~crashed /\ workers[k].pc = "running"
    /\ outcome = "readDeadline" => readTimeout
    /\ outcome = "writeDeadline" => writeTimeout
    /\ workers' = [workers EXCEPT ![k] = [@ EXCEPT !.pc = "done", !.exit = outcome]]
    /\ UNCHANGED <<serverFields, optFields, runVars, stopVars, onCloseCalls, crashed>>

\* server.go:116-118: the deferred cleanup starts with connWg.Done().
WorkerDone(k) ==
    /\ UNCHANGED <<muxVars, connVars, apiVars, pureVars>>
    /\ ~crashed /\ workers[k].pc = "done"
    /\ connWg' = connWg - 1
    /\ workers' = [workers EXCEPT ![k].pc = "close"]
    /\ UNCHANGED <<mu, listener, listenerOpen, listenerReady, shutdownCancel, shutdownCtx>>
    /\ UNCHANGED <<optFields, runVars, stopVars, onCloseCalls, crashed>>

\* Mutant: the closure reads the loop variable instead of its own copy.
OnCloseArg_LoopVar(k) == connID

\* server.go:113, 126: the argument of the on-close callback, the copy
\* localConnID the closure captured.
OnCloseArg(k) == workers[k].localConnID

\* Mutant: the cleanup returns when conn.close() fails.
OnClose_ReturnOnCloseErr(k, closeErr) ==
    IF onCloseHandler /\ ~closeErr
      THEN Append(onCloseCalls[k], OnCloseArg(k)) ELSE onCloseCalls[k]

\* server.go:120-127: a close error does not return; the on-close handler,
\* when configured, is called with the connection's ID.
OnClose(k, closeErr) ==
    IF onCloseHandler THEN Append(onCloseCalls[k], OnCloseArg(k)) ELSE onCloseCalls[k]

\* server.go:119-128: conn.close(), whose error (closeErr) is logged without
\* returning, then the on-close handler.  A goroutine that is still
\* panicking ends the process once its deferred calls have run.
WorkerClose(k, closeErr) ==
    /\ UNCHANGED <<muxVars, connVars, apiVars, pureVars>>
    /\ ~crashed /\ workers[k].pc = "close"
    /\ onCloseCalls' = [onCloseCalls EXCEPT ![k] = OnClose(k, closeErr)]
    /\ workers' = [workers EXCEPT ![k] = [@ EXCEPT !.pc = "exited"]]
    /\ crashed' = Panicking(k)
    /\ UNCHANGED <<serverFields, optFields, runVars, stopVars>>

----------------------------------------------------------------------------
(* Server.Stop, server.go:166-196 *)

\* The text net.Listener.Close and Accept fail with on a closed listener
\* (server.go:102, 181), and a close error of any other text.
ClosedConn == "use of closed network connection"
OtherCloseErr == "close failed"

\* net.Listener.Close as Stop calls it (server.go:179): other is whether it
\* fails for a reason of its own.
ListenerClose(other) ==
    IF ~listenerOpen THEN ClosedConn
    ELSE IF other THEN OtherCloseErr
    ELSE "ok"

\* Mutant: the stricter Stop, which fails without a listener.
StopClose_NoListenerErr(other) ==
    /\ UNCHANGED <<muxVars, connVars, apiVars, pureVars>>
    /\ ~crashed /\ stopPc = "idle" /\ muW = Nil
    /\ atStop' = Cardinality({k \in ConnIdx : workers[k].pc # "none"})
    /\ IF listener = Nil
         THEN /\ ~other
              /\ stopPc' = "returned" /\ stopResult' = "no listener" /\ mu' = mu
              /\ listenerOpen' = listenerOpen /\ closeResult' = closeResult
         ELSE /\ closeResult' = ListenerClose(other)
              /\ IF closeResult' \notin {"ok", ClosedConn}
                   THEN /\ stopPc' = "returned" /\ stopResult' = closeResult' /\ mu' = mu
                        /\ listenerOpen' = listenerOpen
                   ELSE /\ stopPc' = "cancel" /\ stopResult' = stopResult
                        /\ mu' = mu \cup {"stop"}
                        /\ listenerOpen' = FALSE
    /\ UNCHANGED <<listener, listenerReady, connWg, shutdownCancel, shutdownCtx>>
    /\ UNCHANGED <<optFields, runVars, workerVars>>

\* server.go:168-187: RLock, released by the deferred RUnlock on return.
\* Nothing to do without listener and cancel func; else the listener is
\* closed: "use of closed network connection" is logged and swallowed,
\* another close error is returned.
StopClose(other) ==
    /\ UNCHANGED <<muxVars, connVars, apiVars, pureVars>>
    /\ ~crashed /\ stopPc = "idle" /\ muW = Nil
    /\ atStop' = Cardinality({k \in ConnIdx : workers[k].pc # "none"})
    /\ IF listener = Nil /\ shutdownCancel = Nil
         THEN /\ ~other
              /\ stopPc' = "returned" /\ stopResult' = "nil" /\ mu' = mu
              /\ listenerOpen' = listenerOpen /\ closeResult' = closeResult
         ELSE IF listener = Nil
         THEN /\ ~other
              /\ stopPc' = "cancel" /\ stopResult' = stopResult /\ mu' = mu \cup {"stop"}
              /\ listenerOpen' = listenerOpen /\ closeResult' = closeResult
         ELSE /\ closeResult' = ListenerClose(other)
              /\ IF closeResult' \notin {"ok", ClosedConn}
                   THEN /\ stopPc' = "returned" /\ stopResult' = closeResult' /\ mu' = mu
                        /\ listenerOpen' = listenerOpen
                   ELSE /\ stopPc' = "cancel" /\ stopResult' = stopResult
                        /\ mu' = mu \cup {"stop"}
                        /\ listenerOpen' = FALSE
    /\ UNCHANGED <<listener, listenerReady, connWg, shutdownCancel, shutdownCtx>>
    /\ UNCHANGED <<optFields, runVars, workerVars>>

\* server.go:188-191: the shutdown cancel func, when present, is called.
StopCancel ==
    /\ UNCHANGED <<muxVars, connVars, apiVars, pureVars>>
    /\ ~crashed /\ stopPc = "cancel"
    /\ shutdownCtx' = (shutdownCtx \/ shutdownCancel = "own")
    /\ stopPc' = "wait"
    /\ UNCHANGED <<mu, listener, listenerOpen, listenerReady, connWg, shutdownCancel>>
    /\ UNCHANGED <<stopResult, closeResult, atStop, optFields, runVars, workerVars>>

\* server.go:193-195: connWg.Wait() returns when the counter is zero.
StopWait ==
    /\ UNCHANGED <<muxVars, connVars, apiVars, pureVars>>
    /\ ~crashed /\ stopPc = "wait"
    /\ connWg = 0
    /\ stopPc' = "returned" /\ stopResult' = "nil"
    /\ mu' = mu \ {"stop"}
    /\ UNCHANGED <<listener, listenerOpen, listenerReady, connWg, shutdownCancel, shutdownCtx>>
    /\ UNCHANGED <<closeResult, atStop, optFields, runVars, workerVars>>

----------------------------------------------------------------------------
(* Strings.  A string is a sequence of characters, so that strings.ToLower  *)
(* is a computation on it.                                                 *)

UpperChars == <<"A", "B", "C", "D", "X", "Y">>
LowerChars == <<"a", "b", "c", "d", "x", "y">>

ToLowerChar(c) ==
    IF \E i \in 1..Len(UpperChars) : UpperChars[i] = c
      THEN LowerChars[CHOOSE i \in 1..Len(UpperChars) : UpperChars[i] = c]
      ELSE c

\* strings.ToLower, as searchRoute.match uses it (response_options.go:227, 230)
ToLower(str) == [i \in 1..Len(str) |-> ToLowerChar(str[i])]

Empty == <<>>
DcA == <<"d", "c", "=", "a">>
DcAUpper == <<"D", "C", "=", "A">>
DcB == <<"d", "c", "=", "b">>
FilterX == <<"(", "x", "=", "1", ")">>
FilterXUpper == <<"(", "X", "=", "1", ")">>

----------------------------------------------------------------------------
(* Requests: request.go *)

\* request.go:14-20
ExtendedOperationStartTLS == "1.3.6.1.4.1.1466.20037"
ExtendedOperationWhoAmI == "1.3.6.1.4.1.4203.1.11.3"

\* response_options.go:83-105
undefinedRouteOperation == ""
bindRouteOperation == "bind"
searchRouteOperation == "search"
extendedRouteOperation == "extendedOperation"
modifyRouteOperation == "modify"
addRouteOperation == "add"
defaultRouteOperation == "noRoute"

\* The application tags of the protocolOp of an inbound PDU.
TagBind == 0
TagUnbind == 2
TagSearch == 3
TagModify == 6
TagAdd == 8
TagExtended == 23

NoFields == [AuthChoice |-> "", BaseDN |-> Empty, Filter |-> Empty, Scope |-> 0, Name |-> ""]

\* The packets a client sends in the model.
MessageIDs == {1, 2}

Packets ==
    LET P(tag, f) == {[tag |-> tag, messageID |-> id, fields |-> f] : id \in MessageIDs}
    IN  UNION (
          {P(TagBind, [NoFields EXCEPT !.AuthChoice = a]) : a \in {"simple", "sasl"}}
          \cup {P(TagSearch, [NoFields EXCEPT !.BaseDN = b, !.Filter = FilterXUpper, !.Scope = sc])
                   : b \in {DcAUpper, DcB}, sc \in {1, 2}}
          \cup {P(TagExtended, [NoFields EXCEPT !.Name = n])
                   : n \in {ExtendedOperationStartTLS, ExtendedOperationWhoAmI}}
          \cup {P(t, NoFields) : t \in {TagModify, TagAdd, TagUnbind}})

\* NewMessage: the message variant is chosen by the application tag; a tag
\* the message model does not know is an error.
NewMessage(p) ==
    LET kind == CASE p.tag = TagBind -> "SimpleBindMessage"
                  [] p.tag = TagSearch -> "SearchMessage"
                  [] p.tag = TagModify -> "ModifyMessage"
                  [] p.tag = TagAdd -> "AddMessage"
                  [] p.tag = TagExtended -> "ExtendedOperationMessage"
                  [] OTHER -> Nil
    IN  IF kind = Nil
          THEN [err |-> "ErrUnsupportedOperation", m |-> NilPtr]
          ELSE [err |-> "nil",
                m |-> [kind |-> kind, id |-> p.messageID, AuthChoice |-> p.fields.AuthChoice,
                       BaseDN |-> p.fields.BaseDN, Filter |-> p.fields.Filter,
                       Scope |-> p.fields.Scope, Name |-> p.fields.Name]]

\* request.go:32-67.  The type switch knows the bind, search and extended
\* messages; any other message is "an unsupported route operation".
newRequest(id, c, p) ==
    IF c = Nil THEN [err |-> "ErrInvalidParameter", r |-> NilPtr]
    ELSE IF p = NilPtr THEN [err |-> "ErrInvalidParameter", r |-> NilPtr]
    ELSE LET nm == NewMessage(p) IN
         IF nm.err # "nil" THEN [err |-> nm.err, r |-> NilPtr]
         ELSE IF nm.m.kind \notin {"SimpleBindMessage", "SearchMessage", "ExtendedOperationMessage"}
           THEN [err |-> "ErrInternal", r |-> NilPtr]
         ELSE [err |-> "nil",
               r |-> [ID |-> id, message |-> nm.m,
                      routeOp |-> CASE nm.m.kind = "SimpleBindMessage" -> bindRouteOperation
                                    [] nm.m.kind = "SearchMessage" -> searchRouteOperation
                                    [] nm.m.kind = "ExtendedOperationMessage" -> extendedRouteOperation,
                      extendedName |-> IF nm.m.kind = "ExtendedOperationMessage"
                                         THEN nm.m.Name ELSE ""]]

----------------------------------------------------------------------------
(* Routes: response_options.go:107-240 *)

\* response_options.go:158-169
addRoute_match(r, req) ==
    IF req = NilPtr THEN FALSE
    ELSE IF r.routeOp # req.routeOp THEN FALSE
    ELSE IF req.message.kind # "AddMessage" THEN FALSE
    ELSE TRUE

\* response_options.go:171-182
modifyRoute_match(r, req) ==
    IF req = NilPtr THEN FALSE
    ELSE IF r.routeOp # req.routeOp THEN FALSE
    ELSE IF req.message.kind # "ModifyMessage" THEN FALSE
    ELSE TRUE

\* Mutant: a bind route without authChoice matches every bind request.
simpleBindRoute_match_Wildcard(r, req) ==
    IF req = NilPtr THEN FALSE
    ELSE IF r.routeOp # req.routeOp THEN FALSE
    ELSE IF req.message.kind = "SimpleBindMessage"
              /\ (r.authChoice = "" \/ r.authChoice = req.message.AuthChoice) THEN TRUE
    ELSE FALSE

\* response_options.go:184-197
simpleBindRoute_match(r, req) ==
    IF req = NilPtr THEN FALSE
    ELSE IF r.routeOp # req.routeOp THEN FALSE
    ELSE IF req.message.kind = "SimpleBindMessage"
              /\ r.authChoice # "" /\ r.authChoice = req.message.AuthChoice THEN TRUE
    ELSE FALSE

\* response_options.go:199-214
extendedRoute_match(r, req) ==
    IF req = NilPtr THEN FALSE
    ELSE IF r.routeOp # req.routeOp THEN FALSE
    ELSE IF r.extendedName # req.extendedName THEN FALSE
    ELSE IF req.message.kind # "ExtendedOperationMessage" THEN FALSE
    ELSE TRUE

\* Mutant: the filter is compared as written, without strings.ToLower.
searchRoute_match_FilterLiteral(r, req) ==
    IF req = NilPtr THEN FALSE
    ELSE IF r.routeOp # req.routeOp THEN FALSE
    ELSE IF req.message.kind # "SearchMessage" THEN FALSE
    ELSE IF r.basedn # Empty /\ ToLower(req.message.BaseDN) # ToLower(r.basedn) THEN FALSE
    ELSE IF r.filter # Empty /\ req.message.Filter # r.filter THEN FALSE
    ELSE IF r.scope # 0 /\ req.message.Scope # r.scope THEN FALSE
    ELSE TRUE

\* response_options.go:216-240
searchRoute_match(r, req) ==
    IF req = NilPtr THEN FALSE
    ELSE IF r.routeOp # req.routeOp THEN FALSE
    ELSE IF req.message.kind # "SearchMessage" THEN FALSE
    ELSE IF r.basedn # Empty /\ ToLower(req.message.BaseDN) # ToLower(r.basedn) THEN FALSE
    ELSE IF r.filter # Empty /\ ToLower(req.message.Filter) # ToLower(r.filter) THEN FALSE
    ELSE IF r.scope # 0 /\ req.message.Scope # r.scope THEN FALSE
    ELSE TRUE

\* response_options.go:109-113, 129-131: match of the route interface, by the
\* route's type; a bare baseRoute matches nothing.
match(r, req) ==
    CASE r.type = "addRoute" -> addRoute_match(r, req)
      [] r.type = "modifyRoute" -> modifyRoute_match(r, req)
      [] r.type = "simpleBindRoute" -> simpleBindRoute_match(r, req)
      [] r.type = "extendedRoute" -> extendedRoute_match(r, req)
      [] r.type = "searchRoute" -> searchRoute_match(r, req)
      [] OTHER -> FALSE

\* response_options.go:115-148: a route; h names its handler.
BaseRoute(type, op) ==
    [type |-> type, routeOp |-> op, h |-> 0,
     basedn |-> Empty, filter |-> Empty, scope |-> 0, authChoice |-> "", extendedName |-> ""]

\* The routes the registration API (Bind, Search, ExtendedOperation, Modify,
\* Add) is called with in the model.
Registrations ==
    {[BaseRoute("simpleBindRoute", bindRouteOperation) EXCEPT !.authChoice = a]
        : a \in {"", "simple"}}
    \cup {[BaseRoute("searchRoute", searchRouteOperation) EXCEPT !.basedn = q[1], !.filter = q[2], !.scope = q[3]]
        : q \in {<<Empty, Empty, 0>>, <<DcA, Empty, 0>>, <<Empty, FilterX, 0>>, <<Empty, Empty, 2>>}}
    \cup {[BaseRoute("extendedRoute", extendedRouteOperation) EXCEPT !.extendedName = n]
        : n \in {"", ExtendedOperationStartTLS}}
    \cup {BaseRoute("modifyRoute", modifyRouteOperation), BaseRoute("addRoute", addRouteOperation)}

----------------------------------------------------------------------------
(* Mux: registration and dispatch *)

\* Bind, Search, ExtendedOperation, Modify, Add: the route is appended to the
\* Mux's list.  Routes are registered before the connection is served.
MuxRegister(r) ==
    /\ cPc = "read" /\ packet = NilPtr
    /\ Len(routes) < MaxRoutes
    /\ routes' = Append(routes, [r EXCEPT !.h = Len(routes) + 1])
    /\ UNCHANGED <<serverVars, defaultRoute, connVars>>

\* DefaultRoute: the default route slot is set.
MuxDefaultRoute ==
    /\ cPc = "read" /\ packet = NilPtr
    /\ defaultRoute = Nil
    /\ defaultRoute' = "default"
    /\ UNCHANGED <<serverVars, routes, connVars>>

\* request.go:91: ldap.LDAPResultUnwillingToPerform
LDAPResultUnwillingToPerform == 53

\* The response the Mux synthesizes when nothing handles a request.
NoRouteResponse ==
    [by |-> "mux", code |-> LDAPResultUnwillingToPerform,
     diagnosticMessage |-> "no route for operation"]

\* The index of the first route at or after i that matches req; 0 if none.
RECURSIVE FirstMatch(_, _, _)
FirstMatch(rs, req, i) ==
    IF i > Len(rs) THEN 0
    ELSE IF match(rs[i], req) THEN i
    ELSE FirstMatch(rs, req, i + 1)

\* Mutant: the loop does not stop at the first match, so the last one wins.
RECURSIVE LastMatch(_, _, _)
LastMatch(rs, req, i) ==
    IF i < 1 THEN 0
    ELSE IF match(rs[i], req) THEN i
    ELSE LastMatch(rs, req, i - 1)

Mux_serve_LastMatchWins(rs, def, req) ==
    LET i == LastMatch(rs, req, Len(rs))
    IN  IF i # 0 THEN [kind |-> "route", h |-> rs[i].h]
        ELSE IF def # Nil THEN [kind |-> "default", h |-> def]
        ELSE [kind |-> "synthesized", h |-> Nil]

\* Mux.serve: the routes are tried in registration order and the first match
\* wins; without a match the default route is used; without a default route
\* the response is synthesized.
Mux_serve(rs, def, req) ==
    LET i == FirstMatch(rs, req, 1)
    IN  IF i # 0 THEN [kind |-> "route", h |-> rs[i].h]
        ELSE IF def # Nil THEN [kind |-> "default", h |-> def]
        ELSE [kind |-> "synthesized", h |-> Nil]

----------------------------------------------------------------------------
(* Request.StartTLS: request.go:70-83 *)

\* tls.Server(netConn, tlsconfig): the socket wrapped once more.
tls_Server(nc) == nc + 1

\* Conn.initConn: the connection's netConn and reader become the given conn.
initConn(nc) == [err |-> "nil", netConn |-> nc, reader |-> nc]

\* Mutant: the connection is swapped before the handshake is checked.
StartTLS_SwapBeforeHandshake(r, tlsconfig, handshakeOk) ==
    IF tlsconfig = Nil
      THEN [err |-> "ErrInvalidParameter", handshake |-> "none",
            netConn |-> netConn, reader |-> reader]
    ELSE LET ic == initConn(tls_Server(netConn))
         IN  [err |-> IF handshakeOk THEN ic.err ELSE "handshake error",
              handshake |-> IF handshakeOk THEN "ok" ELSE "failed",
              netConn |-> ic.netConn, reader |-> ic.reader]

\* request.go:70-83: the result and the connection's netConn and reader after
\* the call; handshakeOk is whether the client completes the handshake.
StartTLS(r, tlsconfig, handshakeOk) ==
    IF tlsconfig = Nil
      THEN [err |-> "ErrInvalidParameter", handshake |-> "none",
            netConn |-> netConn, reader |-> reader]
    ELSE IF ~handshakeOk
      THEN [err |-> "handshake error", handshake |-> "failed",
            netConn |-> netConn, reader |-> reader]
    ELSE LET ic == initConn(tls_Server(netConn))
         IN  [err |-> ic.err, handshake |-> "ok",
              netConn |-> ic.netConn, reader |-> ic.reader]

----------------------------------------------------------------------------
(* Conn.serveRequests: one connection's serve loop *)

\* A packet is read from the connection's reader.
ConnRead(p) ==
    /\ cPc = "read"
    /\ packet' = p /\ readVia' = reader
    /\ request' = NilPtr /\ dispatched' = NilPtr /\ reply' = NilPtr /\ tlsCall' = NoTLSCall
    /\ cPc' = "newRequest"
    /\ UNCHANGED <<serverVars, muxVars, netConn, reader, serveResult>>

\* The client closes the connection: the read fails and the loop ends.
ConnEOF ==
    /\ cPc = "read"
    /\ cPc' = "closed" /\ serveResult' = "EOF"
    /\ UNCHANGED <<serverVars, muxVars, netConn, reader, packet, readVia, request,
                   dispatched, reply, tlsCall>>

\* newRequest on the packet; its error ends the loop without a reply.
ConnNewRequest ==
    /\ cPc = "newRequest"
    /\ LET nr == newRequest(packet.messageID, "conn", packet)
       IN  IF nr.err # "nil"
             THEN cPc' = "closed" /\ serveResult' = nr.err /\ request' = request
             ELSE cPc' = "serve" /\ serveResult' = serveResult /\ request' = nr.r
    /\ UNCHANGED <<serverVars, muxVars, netConn, reader, packet, readVia, dispatched,
                   reply, tlsCall>>

\* A second Mux, which a caller of Server.Router holds: no route and a
\* default route of its own.
Mux2 == [routes |-> <<>>, defaultRoute |-> "default2"]

\* The Mux a router names: "r1" is the Mux the routes are registered on.
MuxOf(r) ==
    IF r = "r1" THEN [routes |-> routes, defaultRoute |-> defaultRoute] ELSE Mux2

\* The request is handed to the Mux the connection was constructed with
\* (server.go:109), which picks the handler or replies itself.
ConnServe ==
    /\ cPc = "serve"
    /\ dispatched' = Mux_serve(MuxOf(connRouter).routes, MuxOf(connRouter).defaultRoute, request)
    /\ IF dispatched'.kind = "synthesized"
         THEN cPc' = "read" /\ reply' = NoRouteResponse
         ELSE cPc' = "handler" /\ reply' = reply
    /\ UNCHANGED <<serverVars, muxVars, netConn, reader, packet, readVia, request,
                   serveResult, tlsCall>>

\* The handler calls request.StartTLS, at most once per request.
HandlerStartTLS(tlsconfig, handshakeOk) ==
    /\ cPc = "handler" /\ tlsCall.err = "none"
    /\ netConn < MaxUpgrades
    /\ LET res == StartTLS(request, tlsconfig, handshakeOk)
       IN  /\ netConn' = res.netConn /\ reader' = res.reader
           /\ tlsCall' = [config |-> tlsconfig, handshake |-> res.handshake, err |-> res.err,
                          before |-> [netConn |-> netConn, reader |-> reader]]
    /\ UNCHANGED <<serverVars, muxVars, cPc, packet, readVia, request, dispatched,
                   reply, serveResult>>

\* The handler writes its response and returns.
HandlerReturn ==
    /\ cPc = "handler"
    /\ reply' = [by |-> dispatched.h, code |-> 0, diagnosticMessage |-> ""]
    /\ cPc' = "read"
    /\ UNCHANGED <<serverVars, muxVars, netConn, reader, packet, readVia, request,
                   dispatched, serveResult, tlsCall>>

NextConn ==
    \/ \E r \in Registrations : MuxRegister(r)
    \/ MuxDefaultRoute
    \/ \E p \in Packets : ConnRead(p)
    \/ ConnEOF
    \/ ConnNewRequest
    \/ ConnServe
    \/ \E cfg \in {Nil, "tlsconfig"}, ok \in BOOLEAN : HandlerStartTLS(cfg, ok)
    \/ HandlerReturn

----------------------------------------------------------------------------
Next ==
    \/ \E ok \in BOOLEAN : RunListen(ok)
    \/ \E tls \in BOOLEAN : RunTLS(tls)
    \/ RunLoop
    \/ \E other \in BOOLEAN : RunAccept(other)
    \/ \E ok \in BOOLEAN : RunNewConn(ok)
    \/ RunSpawn
    \/ \E k \in ConnIdx, o \in Outcomes : WorkerServe(k, o)
    \/ \E k \in ConnIdx : WorkerDone(k)
    \/ \E k \in ConnIdx, err \in BOOLEAN : WorkerClose(k, err)
    \/ \E other \in BOOLEAN : StopClose(other)
    \/ StopCancel
    \/ StopWait

Spec == Init /\ [][Next]_vars

\* Accept on a closed listener returns at once (server.go:100-105); a
\* client connecting or another Accept error is up to the environment.
RunAcceptClosed == ~listenerOpen /\ RunAccept(FALSE)

\* The Go scheduler runs every goroutine that can take a step: Run goes on
\* unless it is blocked in Accept on an open listener, Stop goes on unless
\* it waits for connWg, and the deferred cleanup of a goroutine whose body
\* has ended runs to its end.  A handler may serve its client forever.
Fairness ==
    /\ WF_vars(\E tls \in BOOLEAN : RunTLS(tls))
    /\ WF_vars(RunLoop)
    /\ WF_vars(RunAcceptClosed)
    /\ WF_vars(\E ok \in BOOLEAN : RunNewConn(ok))
    /\ WF_vars(RunSpawn)
    /\ WF_vars(StopCancel)
    /\ WF_vars(StopWait)
    /\ WF_vars(\E k \in ConnIdx : WorkerDone(k))
    /\ WF_vars(\E k \in ConnIdx, err \in BOOLEAN : WorkerClose(k, err))

\* A server built by NewServer() with or without WithDisablePanicRecovery.
InitLive ==
    /\ NewServer
    /\ ~readTimeout /\ ~writeTimeout /\ ~onCloseHandler
    /\ InitRun /\ InitStop /\ InitWorkers /\ InitMux /\ InitConn
    /\ InitAPI /\ InitPure

SpecLive == InitLive /\ [][Next]_vars /\ Fairness

\* A server built by NewServer() without timeouts, with or without an
\* on-close handler and WithDisablePanicRecovery.
InitPanic ==
    /\ NewServer
    /\ ~readTimeout /\ ~writeTimeout
    /\ InitRun /\ InitStop /\ InitWorkers /\ InitMux /\ InitConn
    /\ InitAPI /\ InitPure

SpecPanic == InitPanic /\ [][Next]_vars

\* The same operations on the servers of TestServer_Stop.
SpecStopTest == InitStopTest /\ [][Next]_vars

\* One connection of a server built by NewServer() without options, and its Mux.
InitServe ==
    /\ TestServer("missing-listener")
    /\ InitRun /\ InitStop /\ InitWorkers /\ InitMux /\ InitConn
    /\ InitAPI /\ InitPure

SpecConn == InitServe /\ [][NextConn]_vars

----------------------------------------------------------------------------
(* Server.Router and Server.Ready, server.go:158-209 *)

\* The routers a caller holds: the Mux NewServer installed and a second one.
Routers == {"r1", "r2"}

\* server.go:200-204: a nil router is refused before the lock is asked for.
RouterCall(r) ==
    /\ UNCHANGED <<muxVars, connVars, pureVars>>
    /\ ~crashed /\ routerPc = "idle"
    /\ IF r = Nil
         THEN api' = [api EXCEPT !.routerResult = "ErrInvalidParameter"]
         ELSE api' = [api EXCEPT !.routerPc = "lock", !.routerArg = r]
    /\ UNCHANGED <<serverFields, optFields, runVars, stopVars, workerVars>>

\* server.go:205: s.mu.Lock() waits until no one holds the lock.
RouterLock ==
    /\ UNCHANGED <<muxVars, connVars, pureVars>>
    /\ ~crashed /\ routerPc = "lock"
    /\ mu = {} /\ muW = Nil
    /\ api' = [api EXCEPT !.muW = "router", !.routerPc = "locked"]
    /\ UNCHANGED <<serverFields, optFields, runVars, stopVars, workerVars>>

\* server.go:206-208: s.router = r; return nil, the deferred Unlock runs.
RouterSet ==
    /\ UNCHANGED <<muxVars, connVars, pureVars>>
    /\ ~crashed /\ routerPc = "locked"
    /\ api' = [api EXCEPT !.router = routerArg, !.muW = Nil,
                          !.routerPc = "idle", !.routerResult = "nil", !.routerArg = Nil]
    /\ UNCHANGED <<serverFields, optFields, runVars, stopVars, workerVars>>

\* server.go:159-163: RLock; return s.listenerReady.
Ready ==
    /\ UNCHANGED <<muxVars, connVars, pureVars>>
    /\ ~crashed /\ muW = Nil
    /\ api' = [api EXCEPT !.readyResult = IF listenerReady THEN "true" ELSE "false"]
    /\ UNCHANGED <<serverFields, optFields, runVars, stopVars, workerVars>>

\* The calls of the server's API; the goroutines of the connections take no
\* lock and touch none of these fields, and stay where Run spawned them.
NextAPI ==
    \/ \E ok \in BOOLEAN : RunListen(ok)
    \/ \E tls \in BOOLEAN : RunTLS(tls)
    \/ RunLoop
    \/ \E other \in BOOLEAN : RunAccept(other)
    \/ \E ok \in BOOLEAN : RunNewConn(ok)
    \/ RunSpawn
    \/ \E other \in BOOLEAN : StopClose(other)
    \/ StopCancel
    \/ StopWait
    \/ \E r \in Routers \cup {Nil} : RouterCall(r)
    \/ RouterLock
    \/ RouterSet
    \/ Ready

\* Run, Stop, Ready and Router called concurrently on a server built by
\* NewServer() without options.
InitServer ==
    /\ TestServer("missing-listener")
    /\ InitRun /\ InitStop /\ InitWorkers /\ InitMux /\ InitConn
    /\ InitAPI /\ InitPure

SpecAPI == InitServer /\ [][NextAPI]_vars

----------------------------------------------------------------------------
(* Server.Router while connections are served *)

\* server.go:100-109: the connection has ended and Run accepts the next
\* one; newConn is given the value s.router has at that moment.
ConnAccept ==
    /\ ~crashed /\ cPc = "closed"
    /\ api' = [api EXCEPT !.connRouter = router]
    /\ netConn' = 0 /\ reader' = 0 /\ cPc' = "read"
    /\ packet' = NilPtr /\ readVia' = 0 /\ request' = NilPtr
    /\ dispatched' = NilPtr /\ reply' = NilPtr
    /\ serveResult' = "none" /\ tlsCall' = NoTLSCall
    /\ UNCHANGED <<serverFields, optFields, runVars, stopVars, workerVars, pureVars, muxVars>>

\* The routes registered and the packets sent while the router is swapped.
SwapRegistrations ==
    {[BaseRoute("simpleBindRoute", bindRouteOperation) EXCEPT !.authChoice = "simple"],
     BaseRoute("searchRoute", searchRouteOperation)}

SwapPackets ==
    {p \in Packets : /\ p.messageID = 1
                     /\ p.tag \in {TagBind, TagSearch, TagModify}
                     /\ p.fields.BaseDN \in {Empty, DcB} /\ p.fields.Scope \in {0, 1}}

NextRouter ==
    \/ \E r \in SwapRegistrations : MuxRegister(r)
    \/ MuxDefaultRoute
    \/ \E p \in SwapPackets : ConnRead(p)
    \/ ConnEOF
    \/ ConnNewRequest
    \/ ConnServe
    \/ HandlerReturn
    \/ ConnAccept
    \/ \E r \in Routers \cup {Nil} : RouterCall(r)
    \/ RouterLock
    \/ RouterSet

\* One connection at a time is served while Server.Router is called.
SpecRouter == InitServe /\ [][NextRouter]_vars

----------------------------------------------------------------------------
(* The response constructors of a request: request.go:87-196 and the       *)
(* response options, response_options.go:1-72.  A *int is a sequence:      *)
(* <<>> is nil, <<n>> points to n.                                         *)

\* Bound: the number of options passed to one constructor.
MaxOpts == 2

\* The conversion int16(code) of request.go:96, 114, 130, 160.
Int16(x) == ((x + 32768) % 65536) - 32768

\* response_options.go:11-16
responseDefaults ==
    [withDiagnosticMessage |-> "Unused", withMatchedDN |-> "Unused",
     withResponseCode |-> <<>>, withApplicationCode |-> <<>>, withAttributes |-> {}]

\* response_options.go:24-72: what each option does to the responseOptions.
WithDiagnosticMessage(o, msg) == [o EXCEPT !.withDiagnosticMessage = msg]
WithMatchedDN(o, dn) == [o EXCEPT !.withMatchedDN = dn]
WithResponseCode(o, code) == [o EXCEPT !.withResponseCode = <<code>>]
WithApplicationCode(o, code) == [o EXCEPT !.withApplicationCode = <<code>>]
WithAttributes(o, attributes) == [o EXCEPT !.withAttributes = attributes]

\* The options a handler passes in the model: a diagnostic message, a
\* matched DN, the result codes success (0), noSuchObject (32) and one that
\* does not fit an int16, an application code and a set of attribute names.
Options ==
    {[name |-> "WithDiagnosticMessage", arg |-> "no such user"],
     [name |-> "WithMatchedDN", arg |-> "dc=a"],
     [name |-> "WithResponseCode", arg |-> 0],
     [name |-> "WithResponseCode", arg |-> 32],
     [name |-> "WithResponseCode", arg |-> 65568],
     [name |-> "WithApplicationCode", arg |-> 1],
     [name |-> "WithAttributes", arg |-> {"cn", "mail"}]}

ApplyOption(o, opt) ==
    CASE opt.name = "WithDiagnosticMessage" -> WithDiagnosticMessage(o, opt.arg)
      [] opt.name = "WithMatchedDN" -> WithMatchedDN(o, opt.arg)
      [] opt.name = "WithResponseCode" -> WithResponseCode(o, opt.arg)
      [] opt.name = "WithApplicationCode" -> WithApplicationCode(o, opt.arg)
      [] opt.name = "WithAttributes" -> WithAttributes(o, opt.arg)

\* response_options.go:18-22: the options are applied to the defaults, in order.
RECURSIVE applyOpts(_, _)
applyOpts(o, opt) ==
    IF opt = <<>> THEN o ELSE applyOpts(ApplyOption(o, Head(opt)), Tail(opt))

getResponseOpts(opt) == applyOpts(responseDefaults, opt)

\* A baseResponse with only its messageID set: the other fields keep Go's
\* zero values.
baseResponse(type, messageID) ==
    [type |-> type, messageID |-> messageID, code |-> 0, diagMessage |-> "", matchedDN |-> ""]

\* Mutant: the general response takes its ID from the request, the
\* connection's request counter, instead of the message.
NewResponse_RequestID(r, opt) ==
    LET opts == getResponseOpts(opt)
        code == IF opts.withResponseCode = <<>>
                  THEN <<LDAPResultUnwillingToPerform>> ELSE opts.withResponseCode
    IN  [baseResponse("GeneralResponse", r.ID) EXCEPT
            !.code = Int16(code[1]),
            !.diagMessage = opts.withDiagnosticMessage,
            !.matchedDN = opts.withMatchedDN]

\* request.go:87-101
NewResponse(r, opt) ==
    LET opts == getResponseOpts(opt)
        code == IF opts.withResponseCode = <<>>
                  THEN <<LDAPResultUnwillingToPerform>> ELSE opts.withResponseCode
    IN  [baseResponse("GeneralResponse", r.message.id) EXCEPT
            !.code = Int16(code[1]),
            !.diagMessage = opts.withDiagnosticMessage,
            !.matchedDN = opts.withMatchedDN]

\* request.go:105-117, 121-133, 151-163: the extended, bind and search-done
\* constructors share one body: only the messageID and, when given, the
\* code are set.
CodeOnlyResponse(type, r, opt) ==
    LET opts == getResponseOpts(opt)
        base == baseResponse(type, r.message.id)
    IN  IF opts.withResponseCode # <<>>
          THEN [base EXCEPT !.code = Int16(opts.withResponseCode[1])]
          ELSE base

NewExtendedResponse(r, opt) == CodeOnlyResponse("ExtendedResponse", r, opt)
NewBindResponse(r, opt) == CodeOnlyResponse("BindResponse", r, opt)
NewSearchDoneResponse(r, opt) == CodeOnlyResponse("SearchResponseDone", r, opt)

\* request.go:181-196
NewSearchResponseEntry(r, entryDN, opt) ==
    LET opts == getResponseOpts(opt)
        base == baseResponse("SearchResponseEntry", r.message.id)
    IN  [type |-> base.type, messageID |-> base.messageID, code |-> base.code,
         diagMessage |-> base.diagMessage, matchedDN |-> base.matchedDN,
         entry |-> [DN |-> entryDN, Attributes |-> opts.withAttributes]]

Constructors == {"NewResponse", "NewExtendedResponse", "NewBindResponse",
                 "NewSearchDoneResponse", "NewSearchResponseEntry"}

Construct(ctor, r, opt) ==
    CASE ctor = "NewResponse" -> NewResponse(r, opt)
      [] ctor = "NewExtendedResponse" -> NewExtendedResponse(r, opt)
      [] ctor = "NewBindResponse" -> NewBindResponse(r, opt)
      [] ctor = "NewSearchDoneResponse" -> NewSearchDoneResponse(r, opt)
      [] ctor = "NewSearchResponseEntry" -> NewSearchResponseEntry(r, "cn=x", opt)

\* The requests newRequest builds from the packets of the model, the first
\* and the second request of a connection.
Requests ==
    {newRequest(ip[1], "conn", ip[2]).r :
        ip \in {x \in {1, 2} \X Packets : newRequest(x[1], "conn", x[2]).err = "nil"}}

\* A handler adds an option to the call it prepares; after a call has
\* returned, the option starts the next call.
HandlerOption(o) ==
    /\ request # NilPtr
    /\ IF resp # NilPtr
         THEN call' = [call EXCEPT !.respCall = [ctor |-> "none", opt |-> <<o>>],
                                   !.resp = NilPtr]
         ELSE /\ Len(respCall.opt) < MaxOpts
              /\ call' = [call EXCEPT !.respCall.opt = Append(@, o), !.resp = NilPtr]
    /\ UNCHANGED <<serverFields, optFields, runVars, stopVars, workerVars, apiVars>>
    /\ UNCHANGED <<muxVars, connVars>>

\* The handler calls a constructor of its request with the options.
HandlerConstruct(ctor) ==
    /\ request # NilPtr /\ resp = NilPtr
    /\ LET built == Construct(ctor, request, respCall.opt)
       IN  call' = [call EXCEPT !.respCall.ctor = ctor, !.resp = built,
                                !.respIDs = @ \cup {built.messageID}]
    /\ UNCHANGED <<serverFields, optFields, runVars, stopVars, workerVars, apiVars>>
    /\ UNCHANGED <<muxVars, connVars>>

NextResponse ==
    \/ \E o \in Options : HandlerOption(o)
    \/ \E ctor \in Constructors : HandlerConstruct(ctor)

\* A handler holding one request, which builds responses for it.
InitResponse ==
    /\ TestServer("missing-listener")
    /\ InitRun /\ InitStop /\ InitWorkers /\ InitMux /\ InitAPI /\ InitPure
    /\ netConn = 0 /\ reader = 0 /\ cPc = "handler"
    /\ packet = NilPtr /\ readVia = 0 /\ dispatched = NilPtr /\ reply = NilPtr
    /\ serveResult = "none" /\ tlsCall = NoTLSCall
    /\ request \in Requests

SpecResponse == InitResponse /\ [][NextResponse]_vars

----------------------------------------------------------------------------
(* The match method of a route applied to a request,                       *)
(* response_options.go:158-240.                                            *)

FilterY == <<"(", "y", "=", "1", ")">>

\* The routes the match methods are applied to: every combination of the
\* predicates of a search route, and bind and extended routes with and
\* without their predicate.
MatchRoutes ==
    {[BaseRoute("searchRoute", searchRouteOperation) EXCEPT !.basedn = b, !.filter = f, !.scope = sc]
        : b \in {Empty, DcA, DcAUpper, DcB}, f \in {Empty, FilterX, FilterXUpper, FilterY},
          sc \in {0, 1, 2}}
    \cup {[BaseRoute("simpleBindRoute", bindRouteOperation) EXCEPT !.authChoice = a]
        : a \in {"", "simple", "sasl"}}
    \cup {[BaseRoute("extendedRoute", extendedRouteOperation) EXCEPT !.extendedName = n]
        : n \in {"", ExtendedOperationStartTLS, ExtendedOperationWhoAmI}}
    \cup {BaseRoute("modifyRoute", modifyRouteOperation), BaseRoute("addRoute", addRouteOperation)}

\* The requests they are applied to, built by newRequest.
MatchPackets ==
    {[tag |-> TagBind, messageID |-> 1, fields |-> [NoFields EXCEPT !.AuthChoice = a]]
        : a \in {"simple", "sasl"}}
    \cup {[tag |-> TagSearch, messageID |-> 1,
           fields |-> [NoFields EXCEPT !.BaseDN = b, !.Filter = f, !.Scope = sc]]
        : b \in {Empty, DcA, DcAUpper, DcB}, f \in {FilterX, FilterXUpper, FilterY},
          sc \in {0, 1, 2}}
    \cup {[tag |-> TagExtended, messageID |-> 1, fields |-> [NoFields EXCEPT !.Name = n]]
        : n \in {ExtendedOperationStartTLS, ExtendedOperationWhoAmI}}

MatchRequests == {newRequest(1, "conn", p).r : p \in MatchPackets}

\* response_options.go:109-113: the dispatcher calls the route's match.
RouteMatch ==
    /\ mRoute # NilPtr /\ mResult = <<>>
    /\ call' = [call EXCEPT !.mResult = <<match(mRoute, request)>>]
    /\ UNCHANGED <<serverFields, optFields, runVars, stopVars, workerVars, apiVars>>
    /\ UNCHANGED <<muxVars, connVars>>

NextMatch == RouteMatch

\* One route and one request.
InitMatch ==
    /\ TestServer("missing-listener")
    /\ InitRun /\ InitStop /\ InitWorkers /\ InitMux /\ InitAPI
    /\ \E r \in MatchRoutes :
          call = [respCall |-> [ctor |-> "none", opt |-> <<>>], resp |-> NilPtr,
                  respIDs |-> {}, mRoute |-> r, mResult |-> <<>>]
    /\ netConn = 0 /\ reader = 0 /\ cPc = "serve"
    /\ packet = NilPtr /\ readVia = 0 /\ dispatched = NilPtr /\ reply = NilPtr
    /\ serveResult = "none" /\ tlsCall = NoTLSCall
    /\ request \in MatchRequests

SpecMatch == InitMatch /\ [][NextMatch]_vars

----------------------------------------------------------------------------
(* Claims about the worker cleanup, Stop and the connection IDs *)

Spawned(k) == workers[k].pc # "none"
Exited(k) == workers[k].pc = "exited"
StopReturnedNil == stopPc = "returned" /\ stopResult = "nil"

\* C1: with an on-close handler configured, a worker's handler is invoked
\* exactly once, with the worker's connection ID, by the time the worker has
\* exited, whatever way its body ended, and never before its cleanup.
C1_OnCloseExactlyOnce ==
    onCloseHandler =>
        \A k \in ConnIdx :
            /\ Exited(k) => onCloseCalls[k] = <<workers[k].localConnID>>
            /\ ~Exited(k) => onCloseCalls[k] = <<>>

\* C1 witness: every way the body ends has been followed by exactly one call:
\* here a worker whose handler panicked, with recovery on, has exited.
C1_Witness ==
    \E k \in ConnIdx :
        /\ Exited(k) /\ workers[k].exit = "panic" /\ ~disablePanicRecovery
        /\ onCloseHandler /\ onCloseCalls[k] = <<workers[k].localConnID>>

\* C2 (as claimed): once Stop has returned nil, every connection whose worker
\* was spawned before Stop was called has had its socket closed and its
\* on-close callback fired.
C2_StopReturnsAfterOnClose ==
    StopReturnedNil => \A k \in 1..atStop : Exited(k)

\* C3 (as claimed): once Stop has returned nil, no connection worker is
\* running, whether spawned before or after the return.
C3_NoWorkerAfterStop ==
    StopReturnedNil => \A k \in ConnIdx : workers[k].pc # "running"

C7_StopClosedListenerErr ==
    (stopPc = "returned" /\ closeResult = ClosedConn /\ shutdownCancel # Nil) =>
        stopResult = ClosedConn

\* C8 (as claimed): Stop returns "no listener" when the listener is nil, and
\* "no shutdown context cancel func" when the listener is set and the cancel
\* func is nil.
C8_StopStrict ==
    stopPc = "returned" =>
        /\ closeResult = "none" => stopResult = "no listener"
        /\ (closeResult = "ok" /\ shutdownCancel = Nil) =>
               stopResult = "no shutdown context cancel func"

\* C10: the k-th connection Accept returns gets ID k, so the IDs of the
\* spawned workers are distinct and increase in accept order, and a worker's
\* on-close callback is only ever called with that ID.
C10_ConnIDs ==
    \A k \in ConnIdx :
        /\ Spawned(k) => workers[k].localConnID = k
        /\ \A i \in 1..Len(onCloseCalls[k]) : onCloseCalls[k][i] = k

\* C10 witness: two workers have exited and the second one's callback was
\* called with ID 2 after a later iteration had advanced connID.
C10_Witness ==
    /\ Exited(1) /\ Exited(2) /\ connID > 2
    /\ onCloseCalls[1] = <<1>> /\ onCloseCalls[2] = <<2>>

----------------------------------------------------------------------------
(* Claims about dispatch, routing misses and StartTLS *)

Matching == {i \in 1..Len(routes) : match(routes[i], request)}

\* C4: the handler dispatched for a request is that of the first route, in
\* registration order, that matches it; without a matching route it is the
\* default route's handler; without a default route either, the response with
\* code 53 is synthesized.  No later matching route is chosen over an earlier.
C4_FirstMatchWins ==
    dispatched # NilPtr =>
        /\ Matching # {} =>
              /\ dispatched.kind = "route"
              /\ \E i \in Matching :
                    /\ dispatched.h = routes[i].h
                    /\ \A j \in Matching : i <= j
        /\ (Matching = {} /\ defaultRoute # Nil) =>
              dispatched = [kind |-> "default", h |-> defaultRoute]
        /\ (Matching = {} /\ defaultRoute = Nil) =>
              /\ dispatched.kind = "synthesized"
              /\ reply # NilPtr /\ reply.code = 53

\* C4 witness: two registered routes match the request and the first is chosen.
C4_Witness ==
    /\ dispatched # NilPtr /\ Cardinality(Matching) >= 2
    /\ dispatched.kind = "route" /\ dispatched.h = routes[1].h

\* C5 (as claimed): with no route and no default route, a modify or add
\* request becomes a Request with the modify or add route operation, and the
\* client receives code 53 with "no route for operation"; the connection is
\* not ended without a reply.
C5_RoutingMissReply ==
    (/\ routes = <<>> /\ defaultRoute = Nil
     /\ packet # NilPtr /\ packet.tag \in {TagModify, TagAdd}
     /\ cPc \notin {"newRequest", "serve"}) =>
        /\ request # NilPtr
        /\ request.routeOp = (IF packet.tag = TagModify THEN modifyRouteOperation
                                                       ELSE addRouteOperation)
        /\ reply # NilPtr /\ reply.code = 53
        /\ reply.diagnosticMessage = "no route for operation"
        /\ serveResult = "none"

----------------------------------------------------------------------------
(* Claims about the responses *)

\* C11: every response a constructor builds for a request carries the
\* message ID of the request's inbound message, whatever options are passed,
\* and so do all the responses built for one request.
C11_ResponseCorrelation ==
    /\ resp # NilPtr => resp.messageID = request.message.id
    /\ respIDs \subseteq {request.message.id}

\* C11 witness: a search-done response has been built with a result code
\* option for a request whose message ID differs from the request's ID.
C11_Witness ==
    /\ resp # NilPtr /\ respCall.ctor = "NewSearchDoneResponse"
    /\ \E i \in 1..Len(respCall.opt) : respCall.opt[i].name = "WithResponseCode"
    /\ request.message.id # request.ID
    /\ respIDs = {request.message.id}

\* The call that built resp passed the option named name.
Passed(name) == \E i \in 1..Len(respCall.opt) : respCall.opt[i].name = name

\* C16: a general, bind, extended or search-done response built without
\* WithMatchedDN and without WithDiagnosticMessage has matchedDN and
\* diagnosticMessage "Unused", and a general response built without
\* WithResponseCode has result code 53.
C16_ResponseDefaults ==
    resp # NilPtr =>
      /\ (/\ resp.type \in {"GeneralResponse", "BindResponse", "ExtendedResponse",
                            "SearchResponseDone"}
          /\ ~Passed("WithMatchedDN") /\ ~Passed("WithDiagnosticMessage"))
            => resp.matchedDN = "Unused" /\ resp.diagMessage = "Unused"
      /\ (resp.type = "GeneralResponse" /\ ~Passed("WithResponseCode"))
            => resp.code = LDAPResultUnwillingToPerform

----------------------------------------------------------------------------
(* Claims about route matching *)

\* Two strings are equal up to the case of their letters.
EqualFold(a, b) ==
    /\ Len(a) = Len(b)
    /\ \A i \in 1..Len(a) : ToLowerChar(a[i]) = ToLowerChar(b[i])

\* C18: a search route matches a request exactly when the request's
\* operation is search, its message is a SearchMessage, and each of baseDN,
\* filter and scope is either empty (0 for scope) on the route or equal to
\* the request's, baseDN and filter up to case and scope exactly.
C18_SearchRouteMatch ==
    (mResult # <<>> /\ mRoute.type = "searchRoute") =>
        mResult[1] =
           (/\ request.routeOp = searchRouteOperation
            /\ request.message.kind = "SearchMessage"
            /\ (mRoute.basedn = Empty \/ EqualFold(mRoute.basedn, request.message.BaseDN))
            /\ (mRoute.filter = Empty \/ EqualFold(mRoute.filter, request.message.Filter))
            /\ (mRoute.scope = 0 \/ mRoute.scope = request.message.Scope))

\* C18 witness: a route with all three predicates has matched a request
\* whose baseDN and filter differ from the route's in case only.
C18_Witness ==
    /\ mResult = <<TRUE>> /\ mRoute.type = "searchRoute"
    /\ mRoute.basedn = DcA /\ request.message.BaseDN = DcAUpper
    /\ mRoute.filter = FilterXUpper /\ request.message.Filter = FilterX
    /\ mRoute.scope = 2

\* The request is of the kind the route serves.
OwnKind ==
    \/ mRoute.type = "simpleBindRoute" /\ request.message.kind = "SimpleBindMessage"
    \/ mRoute.type = "extendedRoute" /\ request.message.kind = "ExtendedOperationMessage"

----------------------------------------------------------------------------
(* Claims about panics in a handler and the result of Run *)

\* The goroutines that have called connWg.Add and not yet connWg.Done.
Tracked == {k \in ConnIdx : workers[k].pc \in {"running", "done"}}

\* C12: with panic recovery enabled, a panic in the handler of one
\* connection ends no process: the panicking goroutine runs its cleanup
\* (the wait counter is decremented, the on-close handler is called), every
\* other goroutine can go on serving, and the accept loop can take its next
\* step, up to accepting the next connection.
C12_PanicIsolation ==
    (~disablePanicRecovery /\ \E k \in ConnIdx : workers[k].exit = "panic") =>
       /\ ~crashed
       /\ connWg = Cardinality(Tracked)
       /\ \A k \in ConnIdx :
             /\ (Exited(k) /\ onCloseHandler) => onCloseCalls[k] = <<workers[k].localConnID>>
             /\ workers[k].pc = "running" => ENABLED WorkerServe(k, "nil")
             /\ workers[k].pc = "done" => ENABLED WorkerDone(k)
             /\ workers[k].pc = "close" => ENABLED WorkerClose(k, FALSE)
       /\ runPc = "loop" => ENABLED RunLoop
       /\ (runPc = "accept" /\ listenerOpen /\ accepted < MaxConns) => ENABLED RunAccept(FALSE)
       /\ runPc = "newConn" => ENABLED RunNewConn(TRUE)
       /\ runPc = "spawn" => ENABLED RunSpawn

\* C12 witness: the first connection's handler has panicked and its cleanup
\* is complete, and a later connection is being served.
C12_Witness ==
    /\ ~disablePanicRecovery /\ onCloseHandler
    /\ workers[1].exit = "panic" /\ Exited(1) /\ onCloseCalls[1] = <<1>>
    /\ workers[2].pc = "running" /\ workers[2].localConnID = 2

\* C13: Run returns nil exactly when it saw the shutdown signal at the top
\* of an iteration or Accept failed on a closed listener; a failed bind,
\* another Accept error and a failed newConn return an error; the return
\* ends accepting and leaves the goroutines already spawned alone.
C13_RunResult ==
    [][/\ (runPc # "returned" /\ runPc' = "returned") =>
            /\ runResult' = "nil" <=> \/ runPc = "loop" /\ shutdownCtx
                                      \/ runPc = "accept" /\ ~listenerOpen
            /\ runPc = "idle" => runResult' = "listenErr"
            /\ (runPc = "accept" /\ listenerOpen) => runResult' = "acceptErr"
            /\ runPc = "newConn" => runResult' = "newConnErr"
            /\ workers' = workers /\ connWg' = connWg /\ ~crashed'
       /\ runPc = "returned" =>
            runPc' = "returned" /\ runResult' = runResult /\ accepted' = accepted
      ]_vars

\* C13 witness: Run has returned an Accept error while a goroutine it
\* spawned is still serving.
C13_Witness ==
    /\ runPc = "returned" /\ runResult = "acceptErr"
    /\ \E k \in ConnIdx : workers[k].pc = "running"

----------------------------------------------------------------------------
(* Claims about the server's lock and Ready *)

\* C17: Run reads s.router (in its call of newConn) only while no caller
\* holds s.mu exclusively, as a read made under the lock would.
C17_LockDiscipline ==
    [][(runPc = "newConn" /\ runPc' # "newConn") => muW = Nil]_vars

\* C20: listenerReady, and so a true answer of Ready(), implies that a
\* listener is installed; Ready() is false before Run and stays false when
\* Run fails to bind its address.
C20_ReadyOnlyWhenReady ==
    /\ listenerReady => listener # Nil
    /\ readyResult = "true" => listener # Nil
    /\ runPc = "idle" => ~listenerReady
    /\ (runPc = "returned" /\ runResult = "listenErr") => ~listenerReady

----------------------------------------------------------------------------
(* Claims about the router *)

\* C15: every request is dispatched on the router the server holds at that
\* moment, the one the last Router(r) that returned nil installed, also on
\* a connection accepted before that call; Router(nil) returns
\* ErrInvalidParameter and leaves the router as it is.
C15_RouterHotSwap ==
    [][/\ (cPc = "serve" /\ cPc' # "serve") =>
             dispatched' = Mux_serve(MuxOf(router).routes, MuxOf(router).defaultRoute, request)
       /\ (routerResult' = "ErrInvalidParameter" /\ routerResult # "ErrInvalidParameter") =>
             router' = router
      ]_vars

----------------------------------------------------------------------------
(* Claims about shutdown *)

\* The positions of Run inside its accept loop (server.go:92-155).
LoopPcs == {"loop", "accept", "newConn", "spawn"}

\* Stop has closed the listener Run installed: Close succeeded, or reported
\* the listener closed already.
StopClosedListener == stopPc # "idle" /\ closeResult \in {"ok", ClosedConn}

C21_NoListenerOutlivesShutdown ==
    (runPc = "returned" /\ runResult = "nil" /\ StopReturnedNil) => ~listenerOpen

====
